---- MODULE Spec2Model ----
(***************************************************************************)
(* A model of github.com/koorgoo/rotate (src/rotate.go): the name codec    *)
(* (Split, shift), the directory scan (List), the rotation engine          *)
(* (rotator.Rotate, rename, reopen) and the rotating writer (Wrap, Write,  *)
(* Close) over a small model of one directory of a file system.            *)
(*                                                                         *)
(* A file name is a sequence of one-character strings; "" of the source is *)
(* the empty sequence.  A directory is a function from the names it holds  *)
(* to inode numbers; the bytes of an inode are a sequence of the numbers   *)
(* of the Write calls that produced them.                                  *)
(***************************************************************************)
EXTENDS Integers, Sequences, FiniteSets, TLC

\* ------------------------------------------------------------------------
\* Bounds of the model
\* ------------------------------------------------------------------------
MaxCount == 4
MaxBytes == 2
MaxIndex == 2
MaxSize == 1
MaxLen == 1
MaxWrites == 3
MaxFaults == 1
NumProcs == 2

\* ------------------------------------------------------------------------
\* Characters and names
\* ------------------------------------------------------------------------
Digits == <<"0", "1", "2", "3", "4", "5", "6", "7", "8", "9">>

Empty == << >>

Base == <<"a">>

\* the byte order of the characters that occur in names (sort.Strings)
Ord(c) ==
    IF c = "." THEN 46
    ELSE IF \E d \in 1..10 : Digits[d] = c
         THEN 47 + (CHOOSE d \in 1..10 : Digits[d] = c)
         ELSE IF c = "a" THEN 97
         ELSE IF c = "b" THEN 98
         ELSE 116

\* strings compare byte by byte; a proper prefix is smaller
RECURSIVE Less(_, _)
Less(s, t) ==
    IF t = Empty THEN FALSE
    ELSE IF s = Empty THEN TRUE
    ELSE IF Ord(Head(s)) # Ord(Head(t)) THEN Ord(Head(s)) < Ord(Head(t))
    ELSE Less(Tail(s), Tail(t))

\* fmt.Sprintf("%d", n) for n >= 0
RECURSIVE Itoa(_)
Itoa(n) ==
    IF n < 10 THEN <<Digits[n + 1]>>
    ELSE Itoa(n \div 10) \o <<Digits[(n % 10) + 1]>>

\* strconv.ParseInt(s, 10, 64) of a string of decimal digits
RECURSIVE ParseInt(_)
ParseInt(s) ==
    IF s = Empty THEN 0
    ELSE 10 * ParseInt(SubSeq(s, 1, Len(s) - 1))
         + ((CHOOSE d \in 1..10 : Digits[d] = s[Len(s)]) - 1)

\* the character class [1-9] of SuffixRe
NonZeroDigit(c) == \E d \in 2..10 : Digits[d] = c

\* `\.[1-9]+$` matches name from position i on
SuffixAt(name, i) ==
    /\ i < Len(name)
    /\ name[i] = "."
    /\ \A j \in (i + 1)..Len(name) : NonZeroDigit(name[j])

\* suffixRe.FindStringSubmatch(name)[1]: the leftmost match of
\* `(\.[1-9]+)?$`; the empty match at the end of the name always exists
FindSuffix(name) ==
    IF \E i \in 1..Len(name) : SuffixAt(name, i)
    THEN LET i == CHOOSE k \in 1..Len(name) :
                      /\ SuffixAt(name, k)
                      /\ \A m \in 1..(k - 1) : ~SuffixAt(name, m)
         IN  SubSeq(name, i, Len(name))
    ELSE Empty

\* the results of Split when the submatch found is v
SplitBy(name, v) ==
    IF v = Empty
    THEN [base |-> name, n |-> 0]
    ELSE [base |-> SubSeq(name, 1, Len(name) - Len(v)),
          n    |-> ParseInt(Tail(v))]

Split(name) == SplitBy(name, FindSuffix(name))

\* fmt.Sprintf("%s.%d", base, n)
Render(base, n) == base \o <<".">> \o Itoa(n)

\* the least index of an empty name, or Len(names) + 1
FirstEmpty(names) ==
    IF \E i \in 1..Len(names) : names[i] = Empty
    THEN CHOOSE i \in 1..Len(names) :
             /\ names[i] = Empty
             /\ \A j \in 1..(i - 1) : names[j] # Empty
    ELSE Len(names) + 1

\* the name with the rotation counter sp.n incremented
Incremented(sp) == Render(sp.base, sp.n + 1)

shift(names) ==
    [i \in 1..Len(names) |->
        IF i < FirstEmpty(names) THEN Incremented(Split(names[i]))
        ELSE Empty]

\* regexp `^` + base + SuffixRe applied to s
MatchesBase(base, s) ==
    \/ s = base
    \/ /\ Len(s) > Len(base)
       /\ SubSeq(s, 1, Len(base)) = base
       /\ SuffixAt(s, Len(base) + 1)

\* sort.Strings
RECURSIVE SortNames(_)
SortNames(S) ==
    IF S = {} THEN << >>
    ELSE LET m == CHOOSE x \in S : \A y \in S \ {x} : Less(x, y)
         IN  <<m>> \o SortNames(S \ {m})

\* List(root, name) over a directory that holds regular files only
List(dir, base) == SortNames({s \in DOMAIN dir : MatchesBase(base, s)})

\* ------------------------------------------------------------------------
\* Errors
\* ------------------------------------------------------------------------
Nil == [type |-> "nil", Filename |-> Empty, Err |-> "nil"]

ErrNotSupported == [type |-> "ErrNotSupported", Filename |-> Empty, Err |-> "nil"]

\* &Error{Filename: name, Err: cause}
Error(name, cause) == [type |-> "Error", Filename |-> name, Err |-> cause]

\* an error of the os package, returned as it is
OsError(cause) == [type |-> "os", Filename |-> Empty, Err |-> cause]

\* ------------------------------------------------------------------------
\* The directory: os.Remove, os.Rename, os.OpenFile
\* ------------------------------------------------------------------------
Unlink(dir, name) == [s \in DOMAIN dir \ {name} |-> dir[s]]

Link(dir, name, ino) ==
    [s \in DOMAIN dir \cup {name} |-> IF s = name THEN ino ELSE dir[s]]

\* os.Remove(abs(name)); inject makes the call fail on an existing file
Remove(dir, name, inject) ==
    IF name \notin DOMAIN dir THEN [dir |-> dir, err |-> "ENOENT"]
    ELSE IF inject THEN [dir |-> dir, err |-> "EACCES"]
    ELSE [dir |-> Unlink(dir, name), err |-> "nil"]

\* os.Rename(abs(old), abs(new)); abs("") is the directory itself, and an
\* existing destination file is replaced
Rename(dir, old, new, inject) ==
    IF old \notin DOMAIN dir THEN [dir |-> dir, err |-> "ENOENT"]
    ELSE IF new = Empty THEN [dir |-> dir, err |-> "EEXIST"]
    ELSE IF inject THEN [dir |-> dir, err |-> "EACCES"]
    ELSE [dir |-> Link(Unlink(dir, old), new, dir[old]), err |-> "nil"]

\* ------------------------------------------------------------------------
\* The rotation engine (type rotator).  Position k of the source's r.names
\* is element k + 1 of the sequence names.
\* ------------------------------------------------------------------------
NoFault == [kind |-> "none", pos |-> 0]

\* the points of one Rotate call at which a system call can be made to fail
Faults(len) ==
    {[kind |-> "remove", pos |-> 0], [kind |-> "reopen", pos |-> 0]}
    \cup {[kind |-> "rename", pos |-> i] : i \in 1..len}

\* the loop of rename: from element i down to 1, skipping empty names and
\* stopping at the first os.Rename that fails; i = 0 is the source's i == -1
RECURSIVE RenameLoop(_, _, _, _, _)
RenameLoop(dir, names, t, i, fault) ==
    IF i = 0 THEN [dir |-> dir, i |-> 0, err |-> Nil]
    ELSE IF names[i] = Empty THEN RenameLoop(dir, names, t, i - 1, fault)
    ELSE LET res == Rename(dir, names[i], t[i],
                           fault.kind = "rename" /\ fault.pos = i)
         IN  IF res.err # "nil"
             THEN [dir |-> dir, i |-> i, err |-> Error(names[i], res.err)]
             ELSE RenameLoop(res.dir, names, t, i - 1, fault)

\* copy(r.names[1:], names) after a complete pass
CopyAll(names, t) ==
    [k \in 1..Len(names) |-> IF k = 1 THEN names[k] ELSE t[k - 1]]

\* r.names[i+1:len(names)-2] of the source is out of range when the low
\* bound exceeds the high one; i is the 1-based element that failed, so the
\* source's bounds are i and Len(names) - 2
SliceInRange(names, i) == i <= Len(names) - 2

\* a record that puts every renamed file at its new position and empties
\* the position after the element that failed
CopyPartialMoved(names, t, i) ==
    [k \in 1..Len(names) |->
        IF k <= i THEN names[k]
        ELSE IF k = i + 1 THEN Empty
        ELSE t[k - 1]]

\* copy(r.names[i+1:len(names)-2], names[i+1:]) after a failure at element i
CopyPartial(names, t, i) ==
    [k \in 1..Len(names) |->
        IF k >= i + 1 /\ k <= Len(names) - 2 THEN t[k] ELSE names[k]]

\* rename that removes nothing before it clears the last name
EvictSkipped(names, dir, fault) == [dir |-> dir, err |-> "nil"]

\* the first step of rename: os.Remove of the last name of the chain
Evict(names, dir, fault) ==
    IF names[Len(names)] # Empty
    THEN Remove(dir, names[Len(names)], fault.kind = "remove")
    ELSE [dir |-> dir, err |-> "nil"]

\* the end of rename: r.names after the loop stopped as loop tells
Record(cleared, t, loop) ==
    IF loop.i = 0
    THEN [names |-> CopyAll(cleared, t), dir |-> loop.dir,
          err |-> loop.err, at |-> NoFault, panic |-> FALSE]
    ELSE [names |-> IF SliceInRange(cleared, loop.i)
                    THEN CopyPartial(cleared, t, loop.i)
                    ELSE cleared,
          dir |-> loop.dir, err |-> loop.err,
          at |-> [kind |-> "rename", pos |-> loop.i],
          panic |-> ~SliceInRange(cleared, loop.i)]

\* rename once the last name is removed: shift, the loop, the record
RenamePass(cleared, dir, t, fault) ==
    Record(cleared, t, RenameLoop(dir, cleared, t, Len(cleared), fault))

\* rename that clears the last name before it looks at the error of the
\* removal
EvictedClears(names, dir, rm, fault) ==
    IF rm.err # "nil"
    THEN [names |-> [names EXCEPT ![Len(names)] = Empty], dir |-> dir,
          err |-> Error(names[Len(names)], rm.err),
          at |-> [kind |-> "remove", pos |-> Len(names)], panic |-> FALSE]
    ELSE RenamePass([names EXCEPT ![Len(names)] = Empty], rm.dir,
                    shift([names EXCEPT ![Len(names)] = Empty]), fault)

\* rename after the removal ended as rm tells
Evicted(names, dir, rm, fault) ==
    IF rm.err # "nil"
    THEN [names |-> names, dir |-> dir,
          err |-> Error(names[Len(names)], rm.err),
          at |-> [kind |-> "remove", pos |-> Len(names)], panic |-> FALSE]
    ELSE RenamePass([names EXCEPT ![Len(names)] = Empty], rm.dir,
                    shift([names EXCEPT ![Len(names)] = Empty]), fault)

\* rotator.rename: the chain and the directory afterwards, the error, the
\* system call that failed (at) and whether the call panicked
rename(names, dir, fault) ==
    Evicted(names, dir, Evict(names, dir, fault), fault)

\* reopen that opens the base file and leaves the old handle open
reopenKeepsOld(r, dir, cont, hs, fault) ==
    IF fault.kind = "reopen"
    THEN [r |-> r, dir |-> dir, cont |-> cont, hs |-> hs,
          err |-> OsError("EACCES")]
    ELSE LET exists == r.name \in DOMAIN dir
             ino    == IF exists THEN dir[r.name] ELSE Len(cont) + 1
         IN  [r    |-> [r EXCEPT !.f = Len(hs) + 1],
              dir  |-> IF exists THEN dir ELSE Link(dir, r.name, ino),
              cont |-> IF exists THEN cont ELSE Append(cont, << >>),
              hs   |-> Append(hs, [ino |-> ino, closes |-> 0]),
              err  |-> Nil]

\* rotator.reopen: os.OpenFile(abs(r.name), OpenFlag, r.mode) opens the
\* file of that name or creates it; then the old handle is closed
reopen(r, dir, cont, hs, fault) ==
    IF fault.kind = "reopen"
    THEN [r |-> r, dir |-> dir, cont |-> cont, hs |-> hs,
          err |-> OsError("EACCES")]
    ELSE LET exists == r.name \in DOMAIN dir
             ino    == IF exists THEN dir[r.name] ELSE Len(cont) + 1
             closed == [hs EXCEPT ![r.f].closes = @ + 1]
         IN  [r    |-> [r EXCEPT !.f = Len(hs) + 1],
              dir  |-> IF exists THEN dir ELSE Link(dir, r.name, ino),
              cont |-> IF exists THEN cont ELSE Append(cont, << >>),
              hs   |-> Append(closed, [ino |-> ino, closes |-> 0]),
              err  |-> Nil]

\* noop.Rotate that removes the base file before it returns the handle
NoopRotateRemoves(r, dir, cont, hs) ==
    [r |-> r, dir |-> Unlink(dir, Base), cont |-> cont, hs |-> hs,
     err |-> Nil, at |-> NoFault, panic |-> FALSE]

\* noop.Rotate
NoopRotate(r, dir, cont, hs) ==
    [r |-> r, dir |-> dir, cont |-> cont, hs |-> hs, err |-> Nil,
     at |-> NoFault, panic |-> FALSE]

\* the end of Rotate when reopen ended as ro tells
Reopened(ro) ==
    [r |-> ro.r, dir |-> ro.dir, cont |-> ro.cont, hs |-> ro.hs,
     err |-> ro.err,
     at |-> IF ro.err = Nil THEN NoFault ELSE [kind |-> "reopen", pos |-> 0],
     panic |-> FALSE]

\* Rotate after rename ended as rn tells: reopen only if rename succeeded
Renamed(r, cont, hs, fault, rn) ==
    IF rn.panic \/ rn.err # Nil
    THEN [r |-> [r EXCEPT !.names = rn.names], dir |-> rn.dir,
          cont |-> cont, hs |-> hs, err |-> rn.err, at |-> rn.at,
          panic |-> rn.panic]
    ELSE Reopened(reopen([r EXCEPT !.names = rn.names], rn.dir, cont, hs,
                         fault))

\* Rotator.Rotate: the handle returned is r.f of the result
Rotate(r, dir, cont, hs, fault) ==
    IF r.kind = "noop"
    THEN NoopRotate(r, dir, cont, hs)
    ELSE Renamed(r, cont, hs, fault, rename(r.names, dir, fault))

\* file.rotate without the test of f.bytes <= 0
MustRotateNoZero(f) == ~(f.n < f.bytes)

\* file.rotate that compares with f.n <= f.bytes
MustRotateStrict(f) == ~(f.bytes <= 0 \/ f.n <= f.bytes)

\* the condition of file.rotate under which Rotate is called
MustRotate(f) == ~(f.bytes <= 0 \/ f.n < f.bytes)

\* ------------------------------------------------------------------------
\* State
\* ------------------------------------------------------------------------
VARIABLES
    cfg,      \* Config: [Bytes, Count, Lock]
    disk,     \* the directory root: name -> inode
    content,  \* inode -> the bytes of the file
    handles,  \* open-file handle -> [ino, closes]
    pc,       \* "new", "open", "failed", "closed" or "panic"
    file,     \* type file: [w, bytes, n]
    rot,      \* file.r: [kind, f, name, names], kind "noop", "rotator" or "nil"
    nw,       \* the number of Write calls made
    faults,   \* the number of injected failures and external removals
    lim,      \* the number of Write calls and of faults a behaviour may hold
    hist,     \* what happened so far: the directory at the start, the
              \* outcomes of Dirname and of the Stat call of Wrap, the
              \* rotations that ended without (ok) and with (bad) an
              \* error, external removals (ext)
    ret,      \* the last call on the writer and what it returned
    mu,       \* file.mu: [kind, owner], kind "Mutex", "noMutex" or "nil",
              \* owner the goroutine that holds the lock, or 0
    thr       \* goroutine -> [pc, op, id, must, rerr]: where the goroutine
              \* is in its call on the writer (concurrent callers only)

vars ==
    <<cfg, disk, content, handles, pc, file, rot, nw, faults, lim, hist, ret,
      mu, thr>>

\* the goroutines that share the writer
Procs == 1..NumProcs

\* a goroutine that is in no call on the writer
Idle ==
    [pc |-> "idle", op |-> "none", id |-> 0, must |-> FALSE, rerr |-> Nil,
     w |-> 0]

\* no mutex: the writer is not built yet
NoMutex == [kind |-> "nil", owner |-> 0]

\* a mutex that never refuses the lock
NewMutexNoLock(lock) == [kind |-> "noMutex", owner |-> 0]

\* the mutex Wrap makes: new(sync.Mutex) if c.Lock, else new(noMutex)
NewMutex(lock) ==
    [kind |-> IF lock THEN "Mutex" ELSE "noMutex", owner |-> 0]

NoRotator == [kind |-> "nil", f |-> 0, name |-> Empty, names |-> << >>]

\* Noop(f)
Noop(f) == [kind |-> "noop", f |-> f, name |-> Empty, names |-> << >>]

NoRet ==
    [op |-> "none", n |-> 0, err |-> Nil, len |-> 0, rotate |-> FALSE,
     rerr |-> Nil, werr |-> Nil, at |-> NoFault, h |-> 0]

\* the names base.1 .. base.MaxIndex that may exist before construction
Siblings == {Render(Base, k) : k \in 1..MaxIndex}

\* a directory that holds the base file and the siblings in S, every file
\* with an inode of its own
InitDisk(S) ==
    [s \in {Base} \cup S |-> IF s = Base THEN 1 ELSE 1 + Split(s).n]

\* The caller has opened the base file (handle 1, inode 1), which holds
\* size bytes written before; the siblings in S are empty files.
Start(c, S, size, l) ==
    /\ cfg = c
    /\ disk = InitDisk(S)
    /\ content = [i \in 1..(1 + MaxIndex) |->
                     IF i = 1 THEN [k \in 1..size |-> 0] ELSE << >>]
    /\ handles = <<[ino |-> 1, closes |-> 0]>>
    /\ pc = "new"
    /\ file = [w |-> 0, bytes |-> 0, n |-> 0]
    /\ rot = NoRotator
    /\ nw = 0
    /\ faults = 0
    /\ lim = l
    /\ hist = [start |-> S, dirname |-> "none", stat |-> FALSE, ok |-> 0,
               bad |-> 0, ext |-> FALSE]
    /\ ret = NoRet
    /\ mu = NoMutex
    /\ thr = [g \in Procs |-> Idle]

\* one caller, for whom the lock makes no difference
Init ==
    \E c \in [Bytes : 0..MaxBytes, Count : 0..MaxCount, Lock : {FALSE}],
       S \in SUBSET Siblings, size \in 0..MaxSize :
        Start(c, S, size, [writes |-> MaxWrites, faults |-> MaxFaults])

\* a chain that holds each listed name at the position of its index
MakeNamesByIndex(count, v) ==
    [k \in 1..count |->
        IF \E j \in 1..Len(v) : Split(v[j]).n = k - 1
        THEN v[CHOOSE j \in 1..Len(v) : Split(v[j]).n = k - 1]
        ELSE Empty]

\* ------------------------------------------------------------------------
\* Construction: New and Wrap
\* ------------------------------------------------------------------------
\* names = make([]string, count+1); copy(names, v)
MakeNamesOneMore(count, v) ==
    [k \in 1..(count + 1) |-> IF k <= Len(v) THEN v[k] ELSE Empty]

\* names = make([]string, count); copy(names, v)
MakeNames(count, v) ==
    [k \in 1..count |-> IF k <= Len(v) THEN v[k] ELSE Empty]

\* the rotator New builds from the names v that List returned
NewRotator(f, names) ==
    [kind |-> "rotator", f |-> f, name |-> names[1], names |-> names]

\* the end of New when List returned v
Listed(f, count, v) ==
    IF Len(v) < 1
    THEN [r |-> NoRotator, err |-> Nil, panic |-> TRUE]
    ELSE [r |-> NewRotator(f, MakeNames(count, v)), err |-> Nil,
          panic |-> FALSE]

\* New(f, count): dirname is the outcome of Dirname(f.Fd()), statOK that of
\* f.Stat(), listOK that of the walk of List
New(f, count, dir, dirname, statOK, listOK) ==
    IF dirname = "ErrNotSupported"
    THEN [r |-> Noop(f), err |-> ErrNotSupported, panic |-> FALSE]
    ELSE IF dirname # "ok"
    THEN [r |-> NoRotator, err |-> OsError("EDIRNAME"), panic |-> FALSE]
    ELSE IF ~statOK
    THEN [r |-> NoRotator, err |-> OsError("ESTAT"), panic |-> FALSE]
    ELSE IF count < 1
    THEN [r |-> NewRotator(f, <<Base>>), err |-> Nil, panic |-> FALSE]
    ELSE IF ~listOK
    THEN [r |-> NoRotator, err |-> OsError("EWALK"), panic |-> FALSE]
    ELSE Listed(f, count, List(dir, Base))

\* Wrap that gives up on every error of New
WrapFailsAlways(err) == err # Nil

\* the condition under which Wrap gives up after New
WrapFails(err) == err # Nil /\ err # ErrNotSupported

\* a byte counter that starts at zero whatever the file holds
SizeIgnored(cont, hs, f) == 0

\* v.Size() of f.Stat(): the bytes of the file that handle f is open on
Size(cont, hs, f) == Len(cont[hs[f].ino])

\* Wrap after New returned new
Wrapped(new, stat2OK) ==
    IF new.panic
    THEN /\ pc' = "panic"
         /\ ret' = [NoRet EXCEPT !.op = "Wrap"]
         /\ UNCHANGED <<file, rot>>
    ELSE IF WrapFails(new.err)
    THEN /\ pc' = "failed"
         /\ ret' = [NoRet EXCEPT !.op = "Wrap", !.err = new.err]
         /\ UNCHANGED <<file, rot>>
    ELSE IF ~stat2OK
    THEN /\ pc' = "failed"
         /\ ret' = [NoRet EXCEPT !.op = "Wrap", !.err = OsError("ESTAT")]
         /\ UNCHANGED <<file, rot>>
    ELSE /\ pc' = "open"
         /\ file' = [w |-> 1, bytes |-> cfg.Bytes,
                     n |-> Size(content, handles, 1)]
         /\ rot' = new.r
         /\ ret' = [NoRet EXCEPT !.op = "Wrap", !.err = new.err]

\* Wrap(f, c) on the handle 1 the caller opened; stat2OK is the outcome of
\* the f.Stat() call of Wrap itself
Wrap(dirname, statOK, listOK, stat2OK) ==
    /\ pc = "new"
    /\ Wrapped(New(1, cfg.Count, disk, dirname, statOK, listOK), stat2OK)
    /\ hist' = [hist EXCEPT !.dirname = dirname, !.stat = stat2OK]
    /\ mu' = IF pc' = "open" THEN NewMutex(cfg.Lock) ELSE mu
    /\ UNCHANGED <<cfg, disk, content, handles, nw, faults, lim, thr>>

\* ------------------------------------------------------------------------
\* Writing
\* ------------------------------------------------------------------------
\* f.w.Write(b) on handle h: a closed handle takes nothing; otherwise the
\* first k bytes of b are appended, with an error when k < len(b)
WriteBytes(cont, hs, h, len, k, id) ==
    IF hs[h].closes > 0
    THEN [cont |-> cont, n |-> 0, err |-> OsError("ErrClosed")]
    ELSE [cont |-> [cont EXCEPT ![hs[h].ino] = @ \o [j \in 1..k |-> id]],
          n    |-> k,
          err  |-> IF k < len THEN OsError("EIO") ELSE Nil]

\* the error file.Write returns: that of the write, else that of the rotation
WriteErr(werr, rerr) == IF werr = Nil THEN rerr ELSE werr

\* the result of file.rotate when Rotate is not called
NotRotated ==
    [r |-> rot, dir |-> disk, cont |-> content, hs |-> handles,
     err |-> Nil, at |-> NoFault, panic |-> FALSE]

\* the rotations counted: ok without an error, bad with one
Counted(must, ro) ==
    IF ~must \/ rot.kind # "rotator" THEN hist
    ELSE IF ro.err = Nil /\ ~ro.panic THEN [hist EXCEPT !.ok = @ + 1]
    ELSE [hist EXCEPT !.bad = @ + 1]

\* a Write that starts the byte counter again whenever it called Rotate
WrittenReset(len, must, ro, h, wr) ==
    /\ pc' = "open"
    /\ handles' = ro.hs
    /\ content' = wr.cont
    /\ file' = [file EXCEPT !.w = h, !.n = IF must THEN wr.n ELSE @ + wr.n]
    /\ ret' = [op |-> "Write", n |-> wr.n, err |-> WriteErr(wr.err, ro.err),
               len |-> len, rotate |-> must, rerr |-> ro.err,
               werr |-> wr.err, at |-> ro.at, h |-> h]

\* the end of Write: f.w.Write(b) on handle h ended as wr tells
Written(len, must, ro, h, wr) ==
    /\ pc' = "open"
    /\ handles' = ro.hs
    /\ content' = wr.cont
    /\ file' = [file EXCEPT !.w = h, !.n = @ + wr.n]
    /\ ret' = [op |-> "Write", n |-> wr.n, err |-> WriteErr(wr.err, ro.err),
               len |-> len, rotate |-> must, rerr |-> ro.err,
               werr |-> wr.err, at |-> ro.at, h |-> h]

\* the system call that fault names was made and failed
TookEffect(fault, at) ==
    fault # NoFault =>
        /\ at.kind = fault.kind
        /\ fault.kind = "rename" => at.pos = fault.pos

\* Write after file.rotate ended as ro tells, with f.w = h
Rotated(len, k, must, ro, h) ==
    /\ nw' = nw + 1
    /\ disk' = ro.dir
    /\ hist' = Counted(must, ro)
    /\ rot' = ro.r
    /\ IF ro.panic
       THEN /\ pc' = "panic"
            /\ ret' = [op |-> "Write", n |-> 0, err |-> Nil, len |-> len,
                       rotate |-> TRUE, rerr |-> ro.err, werr |-> Nil,
                       at |-> ro.at, h |-> file.w]
            /\ UNCHANGED <<content, handles, file>>
       ELSE Written(len, must, ro, h,
                    WriteBytes(ro.cont, ro.hs, h, len, k, nw + 1))

\* file.rotate, then the rest of Write
WriteRotating(len, k, fault, must, ro) ==
    /\ TookEffect(fault, ro.at)
    /\ Rotated(len, k, must, ro, IF must THEN ro.r.f ELSE file.w)

\* the number of failures a Write call injects
Injected(len, k, fault) ==
    (IF fault = NoFault THEN 0 ELSE 1) + (IF k < len THEN 1 ELSE 0)

\* file.Write(b) with len(b) = len, of which the handle accepts k bytes;
\* fault is the system call of the rotation that is made to fail
Write(len, k, fault) ==
    /\ pc = "open"
    /\ nw < lim.writes
    /\ k <= len
    /\ faults + Injected(len, k, fault) <= lim.faults
    /\ fault # NoFault => MustRotate(file) /\ rot.kind = "rotator"
    /\ faults' = faults + Injected(len, k, fault)
    /\ WriteRotating(len, k, fault, MustRotate(file),
                     IF MustRotate(file)
                     THEN Rotate(rot, disk, content, handles, fault)
                     ELSE NotRotated)
    /\ UNCHANGED <<cfg, lim, mu, thr>>

\* file.Close
Close ==
    /\ pc = "open"
    /\ pc' = "closed"
    /\ handles' = [handles EXCEPT ![file.w].closes = @ + 1]
    /\ ret' = [NoRet EXCEPT !.op = "Close"]
    /\ UNCHANGED <<cfg, disk, content, file, rot, nw, faults, lim, hist,
                   mu, thr>>

\* another process removes a file of the directory (as the tests do)
ExternalRemove(name) ==
    /\ pc = "open"
    /\ faults < lim.faults
    /\ name \in DOMAIN disk
    /\ disk' = Unlink(disk, name)
    /\ faults' = faults + 1
    /\ hist' = [hist EXCEPT !.ext = TRUE]
    /\ UNCHANGED <<cfg, content, handles, pc, file, rot, nw, lim, ret,
                   mu, thr>>

Next ==
    \/ \E dirname \in {"ok", "ErrNotSupported", "error"},
          statOK, listOK, stat2OK \in BOOLEAN :
          Wrap(dirname, statOK, listOK, stat2OK)
    \/ \E len \in 1..MaxLen, k \in 0..MaxLen,
          fault \in {NoFault} \cup Faults(MaxCount) :
          Write(len, k, fault)
    \/ Close
    \/ \E name \in DOMAIN disk : ExternalRemove(name)

Spec == Init /\ [][Next]_vars

\* ------------------------------------------------------------------------
\* Runs with one failure more than MaxFaults, so that the rotation and the
\* write of one call can both fail, and two rotations in a row
\* ------------------------------------------------------------------------
InitFaulty ==
    \E c \in [Bytes : 1..MaxBytes, Count : 0..MaxCount, Lock : {FALSE}],
       S \in SUBSET Siblings, size \in 0..MaxSize :
        Start(c, S, size, [writes |-> MaxWrites, faults |-> MaxFaults + 1])

SpecFaulty == InitFaulty /\ [][Next]_vars

\* ------------------------------------------------------------------------
\* Long runs: one writer with a long chain, every write of Bytes bytes, no
\* failures
\* ------------------------------------------------------------------------
LongCount == 12

InitLong ==
    \E c \in [Bytes : 1..MaxBytes, Count : 2..LongCount, Lock : {FALSE}],
       size \in 0..MaxSize :
        Start(c, {}, size, [writes |-> LongCount + 1, faults |-> 0])

NextLong ==
    \/ Wrap("ok", TRUE, TRUE, TRUE)
    \/ Write(cfg.Bytes, cfg.Bytes, NoFault)
    \/ Close

SpecLong == InitLong /\ [][NextLong]_vars

\* ------------------------------------------------------------------------
\* The name codec and the directory scan on their own: calls of Split, of
\* shift and of List on names and directory trees drawn from small sets;
\* ret holds the call and what it returned
\* ------------------------------------------------------------------------
MaxEntries == 2

\* a regular file of a directory
FileNode(name) == [name |-> name, dir |-> FALSE, kids |-> {}]

\* a directory and the entries it holds
DirNode(name, kids) == [name |-> name, dir |-> TRUE, kids |-> kids]

\* sort.Strings on a slice, which may hold a name more than once
RECURSIVE SortStrings(_)
SortStrings(v) ==
    IF v = << >> THEN << >>
    ELSE LET i == CHOOSE k \in 1..Len(v) :
                      \A j \in 1..Len(v) : ~Less(v[j], v[k])
         IN  <<v[i]>> \o SortStrings(SubSeq(v, 1, i - 1)
                                         \o SubSeq(v, i + 1, Len(v)))

\* filepath.Walk(root, fn) with the function of List: the names appended
\* at node and below it.  fn returns filepath.SkipDir for a directory that
\* is not the root, before it looks at the name; otherwise it appends the
\* name of the node when the pattern matches, and Walk goes on with the
\* entries of a directory in the order of their names.
RECURSIVE Walk(_, _, _)
RECURSIVE WalkKids(_, _)
Walk(node, isRoot, base) ==
    IF node.dir /\ ~isRoot THEN << >>
    ELSE (IF MatchesBase(base, node.name) THEN <<node.name>> ELSE << >>)
             \o WalkKids(node.kids, base)

WalkKids(kids, base) ==
    IF kids = {} THEN << >>
    ELSE LET k == CHOOSE x \in kids :
                      \A y \in kids \ {x} : Less(x.name, y.name)
         IN  Walk(k, FALSE, base) \o WalkKids(kids \ {k}, base)

\* List(root, name) on a directory tree; List(dir, base) above is ListTree
\* on a root whose own name does not match and that holds regular files only
ListTree(root, base) == SortStrings(Walk(root, TRUE, base))

\* base names that do not end in a rotation suffix
CodecBases ==
    {Base, <<"b">>, <<"a", "1">>, <<"a", ".", "b">>, <<"a", ".", "1", "b">>}

\* the names of the entries of a scanned directory
ScanNames ==
    {Base, <<"b">>, <<"a", ".", "b">>}
        \cup {Render(Base, k) : k \in {0, 1, 2, 10}}

\* the names a scanned directory itself may carry
RootNames == {<<"t">>, Base, Render(Base, 1)}

\* an entry of the scanned directory: a regular file, or a directory that
\* holds the files base and base.1
Entry(name, isDir) ==
    IF isDir
    THEN DirNode(name, {FileNode(Base), FileNode(Render(Base, 1))})
    ELSE FileNode(name)

\* the trees scanned: at most MaxEntries entries, each a file or a directory
ScanTrees ==
    {DirNode(r, {Entry(s, s \in D) : s \in N}) :
        r \in RootNames,
        N \in {X \in SUBSET ScanNames : Cardinality(X) <= MaxEntries},
        D \in SUBSET ScanNames}

InitNames ==
    Start([Bytes |-> 0, Count |-> 0, Lock |-> FALSE], {}, 0,
          [writes |-> 0, faults |-> 0])

\* t := shift([name]) for the name of slot n, then Split(t[0])
CallShift(base, n) ==
    /\ pc = "new"
    /\ ret' = [op |-> "shift", base |-> base, n |-> n,
               name |-> shift(<<IF n = 0 THEN base ELSE Render(base, n)>>)[1],
               out |-> Split(shift(<<IF n = 0 THEN base
                                     ELSE Render(base, n)>>)[1])]
    /\ UNCHANGED <<cfg, disk, content, handles, pc, file, rot, nw, faults,
                   lim, hist, mu, thr>>

\* Split(fmt.Sprintf("%s.%d", base, n))
CallSplit(base, n) ==
    /\ pc = "new"
    /\ ret' = [op |-> "Split", base |-> base, n |-> n,
               name |-> Render(base, n), out |-> Split(Render(base, n))]
    /\ UNCHANGED <<cfg, disk, content, handles, pc, file, rot, nw, faults,
                   lim, hist, mu, thr>>

\* List(root, base) on the tree root
CallList(root) ==
    /\ pc = "new"
    /\ ret' = [op |-> "List", root |-> root, base |-> Base,
               out |-> ListTree(root, Base)]
    /\ UNCHANGED <<cfg, disk, content, handles, pc, file, rot, nw, faults,
                   lim, hist, mu, thr>>

NextNames ==
    \/ \E base \in CodecBases, n \in 0..LongCount : CallShift(base, n)
    \/ \E base \in CodecBases, n \in 0..LongCount : CallSplit(base, n)
    \/ \E root \in ScanTrees : CallList(root)

SpecNames == InitNames /\ [][NextNames]_vars

\* ------------------------------------------------------------------------
\* Concurrent callers: NumProcs goroutines call Write (or WriteString,
\* which is Write) and Sync on one writer built with Lock = true.  A call
\* is a sequence of steps: f.mu.Lock, the rename of the rotation, its
\* reopen with the swap of f.w, the write or sync on f.w, f.mu.Unlock.
\* ------------------------------------------------------------------------
InitConc ==
    \E c \in [Bytes : 0..MaxBytes, Count : 0..MaxCount, Lock : {TRUE}],
       size \in 0..MaxSize :
        Start(c, {}, size, [writes |-> MaxWrites, faults |-> 0])

\* goroutine g enters Write(b), len(b) = 1, or Sync
Call(g, op) ==
    /\ pc = "open"
    /\ thr[g].pc = "idle"
    /\ nw < lim.writes
    /\ nw' = nw + 1
    /\ thr' = [thr EXCEPT ![g] = [Idle EXCEPT !.pc = "lock", !.op = op,
                                              !.id = nw + 1]]
    /\ UNCHANGED <<cfg, disk, content, handles, pc, file, rot, faults, lim,
                   hist, ret, mu>>

\* m.Lock() returns: always for a noMutex, for a Mutex when no one holds it
CanLock(m) == m.kind = "noMutex" \/ m.owner = 0

\* f.mu.Lock()
Lock(g) ==
    /\ pc = "open"
    /\ thr[g].pc = "lock"
    /\ CanLock(mu)
    /\ mu' = IF mu.kind = "Mutex" THEN [mu EXCEPT !.owner = g] ELSE mu
    /\ thr' = [thr EXCEPT ![g].pc = IF thr[g].op = "Sync" THEN "sync"
                                    ELSE "rotate"]
    /\ UNCHANGED <<cfg, disk, content, handles, pc, file, rot, nw, faults,
                   lim, hist, ret>>

\* file.rotate up to the end of rename, which ended as rn tells
Renaming(g, rn) ==
    /\ disk' = rn.dir
    /\ rot' = [rot EXCEPT !.names = rn.names]
    /\ pc' = IF rn.panic THEN "panic" ELSE "open"
    /\ hist' = IF rn.panic \/ rn.err # Nil THEN [hist EXCEPT !.bad = @ + 1]
               ELSE hist
    /\ thr' = [thr EXCEPT ![g].must = TRUE, ![g].rerr = rn.err,
                          ![g].pc = IF rn.err = Nil THEN "reopen"
                                    ELSE "write"]

\* file.rotate: the test of the byte counter, and Rotate up to the end of
\* rename
RotateBegin(g) ==
    /\ pc = "open"
    /\ thr[g].pc = "rotate"
    /\ IF MustRotate(file) /\ rot.kind = "rotator"
       THEN Renaming(g, rename(rot.names, disk, NoFault))
       ELSE /\ thr' = [thr EXCEPT ![g].must = MustRotate(file),
                                  ![g].pc = "write"]
            /\ UNCHANGED <<disk, rot, pc, hist>>
    /\ UNCHANGED <<cfg, content, handles, file, nw, faults, lim, ret, mu>>

\* the rest of Rotate, which ended as ro tells, and f.w, err = ...
Swapped(g, ro) ==
    /\ disk' = ro.dir
    /\ content' = ro.cont
    /\ handles' = ro.hs
    /\ rot' = ro.r
    /\ file' = [file EXCEPT !.w = ro.r.f]
    /\ hist' = [hist EXCEPT !.ok = @ + 1]
    /\ thr' = [thr EXCEPT ![g].rerr = ro.err, ![g].pc = "write"]

\* reopen, the return of Rotate and the assignment of f.w
Reopen(g) ==
    /\ pc = "open"
    /\ thr[g].pc = "reopen"
    /\ Swapped(g, reopen(rot, disk, content, handles, NoFault))
    /\ UNCHANGED <<cfg, pc, nw, faults, lim, ret, mu>>

\* the end of Write: f.w.Write(b) ended as wr tells; f.n += n
WrittenBy(g, wr) ==
    /\ content' = wr.cont
    /\ file' = [file EXCEPT !.n = @ + wr.n]
    /\ ret' = [op |-> "Write", n |-> wr.n,
               err |-> WriteErr(wr.err, thr[g].rerr), len |-> 1,
               rotate |-> thr[g].must, rerr |-> thr[g].rerr,
               werr |-> wr.err, at |-> NoFault, h |-> file.w]

\* n, err = f.w.Write(b)
DoWrite(g) ==
    /\ pc = "open"
    /\ thr[g].pc = "write"
    /\ WrittenBy(g, WriteBytes(content, handles, file.w, 1, 1, thr[g].id))
    /\ thr' = [thr EXCEPT ![g].pc = "unlock"]
    /\ UNCHANGED <<cfg, disk, handles, pc, rot, nw, faults, lim, hist, mu>>

\* err = f.w.Sync()
DoSync(g) ==
    /\ pc = "open"
    /\ thr[g].pc = "sync"
    /\ ret' = [NoRet EXCEPT !.op = "Sync", !.h = file.w,
                            !.err = IF handles[file.w].closes > 0
                                    THEN OsError("ErrClosed") ELSE Nil]
    /\ thr' = [thr EXCEPT ![g].pc = "unlock"]
    /\ UNCHANGED <<cfg, disk, content, handles, pc, file, rot, nw, faults,
                   lim, hist, mu>>

\* f.mu.Unlock() and the return of the call
Unlock(g) ==
    /\ pc = "open"
    /\ thr[g].pc = "unlock"
    /\ mu' = IF mu.kind = "Mutex" THEN [mu EXCEPT !.owner = 0] ELSE mu
    /\ thr' = [thr EXCEPT ![g] = Idle]
    /\ UNCHANGED <<cfg, disk, content, handles, pc, file, rot, nw, faults,
                   lim, hist, ret>>

NextConc ==
    \/ \E dirname \in {"ok", "ErrNotSupported"} :
          Wrap(dirname, TRUE, TRUE, TRUE)
    \/ \E g \in Procs, op \in {"Write", "Sync"} : Call(g, op)
    \/ \E g \in Procs : Lock(g)
    \/ \E g \in Procs : RotateBegin(g)
    \/ \E g \in Procs : Reopen(g)
    \/ \E g \in Procs : DoWrite(g)
    \/ \E g \in Procs : DoSync(g)
    \/ \E g \in Procs : Unlock(g)

SpecConc == InitConc /\ [][NextConc]_vars

\* ------------------------------------------------------------------------
\* Close beside the goroutines that write: file.Close takes no lock, so the
\* read of f.w and the Close of what was read are steps of their own, and a
\* rotation of another goroutine may come before, between or after them
\* ------------------------------------------------------------------------

\* a goroutine is in Close or has returned from it
Closing(t) == \E h \in Procs : t[h].pc \in {"close", "closing", "closed"}

\* Close has returned
Closed(t) == \E h \in Procs : t[h].pc = "closed"

\* goroutine g enters Close, the one Close of the writer
CallClose(g) ==
    /\ pc = "open"
    /\ thr[g].pc = "idle"
    /\ ~Closing(thr)
    /\ thr' = [thr EXCEPT ![g] = [Idle EXCEPT !.pc = "close", !.op = "Close"]]
    /\ UNCHANGED <<cfg, disk, content, handles, pc, file, rot, nw, faults,
                   lim, hist, ret, mu>>

\* the read of f.w in f.w.Close(), outside the lock
LoadW(g) ==
    /\ pc = "open"
    /\ thr[g].pc = "close"
    /\ thr' = [thr EXCEPT ![g].pc = "closing", ![g].w = file.w]
    /\ UNCHANGED <<cfg, disk, content, handles, pc, file, rot, nw, faults,
                   lim, hist, ret, mu>>

\* Close of the handle that was read, and the return of file.Close
DoClose(g) ==
    /\ pc = "open"
    /\ thr[g].pc = "closing"
    /\ handles' = [handles EXCEPT ![thr[g].w].closes = @ + 1]
    /\ ret' = [NoRet EXCEPT !.op = "Close", !.h = thr[g].w]
    /\ thr' = [thr EXCEPT ![g].pc = "closed"]
    /\ UNCHANGED <<cfg, disk, content, pc, file, rot, nw, faults, lim, hist,
                   mu>>

\* no Write begins once Close has returned
NextShut ==
    \/ \E dirname \in {"ok", "ErrNotSupported"} :
          Wrap(dirname, TRUE, TRUE, TRUE)
    \/ \E g \in Procs : ~Closed(thr) /\ Call(g, "Write")
    \/ \E g \in Procs : Lock(g)
    \/ \E g \in Procs : RotateBegin(g)
    \/ \E g \in Procs : Reopen(g)
    \/ \E g \in Procs : DoWrite(g)
    \/ \E g \in Procs : Unlock(g)
    \/ \E g \in Procs : CallClose(g)
    \/ \E g \in Procs : LoadW(g)
    \/ \E g \in Procs : DoClose(g)

SpecShut == InitConc /\ [][NextShut]_vars

\* ------------------------------------------------------------------------
\* Shapes of the state
\* ------------------------------------------------------------------------
TypeOK ==
    /\ pc \in {"new", "open", "failed", "closed", "panic"}
    /\ nw \in 0..lim.writes
    /\ faults \in 0..lim.faults
    /\ rot.kind \in {"nil", "noop", "rotator"}

\* ------------------------------------------------------------------------
\* Vocabulary of the properties
\* ------------------------------------------------------------------------
IsDigit(c) == \E d \in 1..10 : Digits[d] = c

\* s is base.<index>, the index a decimal number
IsBacklog(s) ==
    /\ Len(s) > Len(Base) + 1
    /\ SubSeq(s, 1, Len(Base) + 1) = Base \o <<".">>
    /\ \A j \in (Len(Base) + 2)..Len(s) : IsDigit(s[j])

Backlog(dir) == {s \in DOMAIN dir : IsBacklog(s)}

\* the generation a name stands for: 0 for the base, the index otherwise
Gen(s) ==
    IF IsBacklog(s) THEN ParseInt(SubSeq(s, Len(Base) + 2, Len(s))) ELSE 0

Min(a, b) == IF a < b THEN a ELSE b

\* the step is a call of file.Write
WriteStep == nw' = nw + 1

\* the bytes that Write call number id puts into a file
Bytes(id, n) == [j \in 1..n |-> id]

Contiguous(names) ==
    \A i \in 1..Len(names) : \A j \in 1..i :
        names[i] # Empty => names[j] # Empty

\* ------------------------------------------------------------------------
\* Properties
\* ------------------------------------------------------------------------

\* C1: after any Rotate call on a writer built with Count = C >= 2, the
\* number of files base.<index> in the directory is at most C - 1, whatever
\* the directory held at the start.
C1_EvictionBound ==
    (ret.op = "Write" /\ ret.rotate /\ rot.kind = "rotator" /\ cfg.Count >= 2)
        => Cardinality(Backlog(disk)) <= cfg.Count - 1

\* C2: from a directory that holds only the base file, after N successful
\* rotations and no failed one (Count = C >= 2) the directory holds the base
\* and exactly base.1 .. base.min(N, C-1), and the chain records them.
C2_RotationMonotonicity ==
    (/\ pc = "open"
     /\ rot.kind = "rotator"
     /\ cfg.Count >= 2
     /\ hist.start = {}
     /\ hist.bad = 0
     /\ ~hist.ext)
        => LET m == Min(hist.ok, cfg.Count - 1)
           IN  /\ DOMAIN disk = {Base} \cup {Render(Base, k) : k \in 1..m}
               /\ rot.names =
                      [k \in 1..cfg.Count |->
                          IF k = 1 THEN Base
                          ELSE IF k - 1 <= m THEN Render(Base, k - 1)
                          ELSE Empty]

\* C3: a successful rotation moves every retained file one generation up
\* (base.(k+1) is the file that generation k was), the base file is a new
\* file, and the bytes of the write that triggered the rotation are the only
\* bytes of the new base and reach no other file.
C3_SuccessfulRotationShifts ==
    [][(/\ WriteStep
        /\ rot.kind = "rotator"
        /\ MustRotate(file)
        /\ pc' = "open"
        /\ ret'.rerr = Nil)
           => /\ \A j \in 1..(Len(rot.names) - 1) :
                    rot.names[j] # Empty =>
                        /\ Render(Base, Gen(rot.names[j]) + 1) \in DOMAIN disk'
                        /\ disk'[Render(Base, Gen(rot.names[j]) + 1)]
                               = disk[rot.names[j]]
              /\ Base \in DOMAIN disk'
              /\ disk'[Base] > Len(content)
              /\ content'[disk'[Base]] = Bytes(nw + 1, ret'.n)
              /\ \A ino \in 1..Len(content) : content'[ino] = content[ino]
      ]_vars

\* C4: with Bytes = T > 0, a Write of exactly T bytes to an empty file does
\* not call Rotate, and the Write that follows it does.
C4_ThresholdEdge ==
    [][(WriteStep /\ file.bytes > 0)
           => /\ (file.n = 0 /\ ret'.len = file.bytes) => ~ret'.rotate
              /\ (/\ ret.op = "Write"
                  /\ ~ret.rotate
                  /\ ret.len = file.bytes
                  /\ ret.n = ret.len
                  /\ file.n = file.bytes) => ret'.rotate
      ]_vars

\* C4 witness: the second Write rotated after a first Write of exactly
\* Bytes bytes to the empty base file.
C4_Witness ==
    /\ nw = 2
    /\ ret.op = "Write"
    /\ ret.rotate
    /\ file.bytes > 0
    /\ content[1] = Bytes(1, file.bytes)

\* C5: after a Write that rotated successfully, a Write does not rotate
\* while the fresh base file holds fewer than Bytes bytes.
C5_CounterResetOnRotation ==
    [][(/\ WriteStep
        /\ rot.kind = "rotator"
        /\ ret.op = "Write"
        /\ ret.rotate
        /\ ret.rerr = Nil
        /\ Len(content[handles[file.w].ino]) < file.bytes)
           => ~ret'.rotate
      ]_vars

\* C6: when Rotate fails inside a Write, the write is still made on the
\* current handle, and when it succeeds Write returns the full byte count
\* together with the rotation error.
C6_RotationFailureKeepsWrite ==
    [][(WriteStep /\ MustRotate(file) /\ ret'.rerr # Nil)
           => /\ pc' = "open"
              /\ ret'.h = rot'.f
              /\ ret'.h = file'.w
              /\ ret'.werr = Nil =>
                    /\ ret'.n = ret'.len
                    /\ ret'.err = ret'.rerr
                    /\ content'[handles'[ret'.h].ino]
                           = content[handles'[ret'.h].ino]
                                 \o Bytes(nw + 1, ret'.len)
      ]_vars

\* C7: when the rename of chain position i fails and the call returns, the
\* files of the positions below i keep their names, the files of the
\* positions above i carry their incremented names, and no file but the
\* evicted one is lost and none is duplicated.
C7_PartialFailureContainment ==
    [][(WriteStep /\ ret'.at.kind = "rename" /\ pc' = "open")
           => LET i     == ret'.at.pos
                  names == rot.names
                  len   == Len(names)
              IN  /\ \A j \in 1..(i - 1) :
                        (names[j] # Empty /\ names[j] \in DOMAIN disk) =>
                            /\ names[j] \in DOMAIN disk'
                            /\ disk'[names[j]] = disk[names[j]]
                  /\ \A j \in (i + 1)..(len - 1) :
                        (names[j] # Empty /\ names[j] \in DOMAIN disk) =>
                            /\ Render(Base, Gen(names[j]) + 1) \in DOMAIN disk'
                            /\ disk'[Render(Base, Gen(names[j]) + 1)]
                                   = disk[names[j]]
                  /\ \A s \in DOMAIN disk :
                        s # names[len] => \E u \in DOMAIN disk' :
                                              disk'[u] = disk[s]
                  /\ \A u, v \in DOMAIN disk' : disk'[u] = disk'[v] => u = v
      ]_vars

\* C8: a rotation that runs while the file of some chain position is
\* missing returns normally and leaves the occupied positions contiguous.
C8_NoCrashOnAbsentSlot ==
    [][(/\ WriteStep
        /\ rot.kind = "rotator"
        /\ MustRotate(file)
        /\ \E j \in 1..Len(rot.names) :
              rot.names[j] # Empty /\ rot.names[j] \notin DOMAIN disk)
           => pc' = "open" /\ Contiguous(rot'.names)
      ]_vars

\* C9: after Dirname reported ErrNotSupported, every Write returns normally,
\* keeps the original handle, reports no rotation error, leaves the
\* directory and the set of handles as they were, and adds the bytes it
\* wrote to the byte counter and to the original file.
C9_UnsupportedIsNoop ==
    [][(hist.dirname = "ErrNotSupported" /\ WriteStep)
           => /\ pc' = "open"
              /\ disk' = disk
              /\ handles' = handles
              /\ Len(content') = Len(content)
              /\ file'.w = 1
              /\ ret'.h = 1
              /\ ret'.rerr = Nil
              /\ file'.n = file.n + ret'.n
              /\ ret'.werr = Nil =>
                    /\ ret'.n = ret'.len
                    /\ ret'.err = Nil
                    /\ content'[1] = content[1] \o Bytes(nw + 1, ret'.len)
      ]_vars

\* C9 witness: on an unsupported platform Rotate was called by a Write
\* after the byte counter had reached Bytes.
C9_Witness ==
    /\ hist.dirname = "ErrNotSupported"
    /\ ret.op = "Write"
    /\ ret.rotate
    /\ ret.n > 0
    /\ file.n > file.bytes

\* C10: Wrap returns a writer with ErrNotSupported when Dirname reports it
\* and Stat works, a writer with a nil error when construction succeeds,
\* and no writer with the error otherwise; no Write returns ErrNotSupported.
C10_ConstructionOutcome ==
    /\ ret.op = "Wrap" =>
          /\ (hist.dirname = "ErrNotSupported" /\ hist.stat) =>
                pc = "open" /\ file.w = 1 /\ ret.err = ErrNotSupported
          /\ ret.err = ErrNotSupported =>
                pc = "open" /\ file.w = 1 /\ rot.kind = "noop"
          /\ ret.err = Nil =>
                pc = "open" /\ file.w = 1 /\ rot.kind = "rotator"
          /\ ret.err \notin {Nil, ErrNotSupported} =>
                pc = "failed" /\ file.w = 0
          /\ (hist.dirname = "error" \/ ~hist.stat) =>
                pc = "failed" /\ ret.err \notin {Nil, ErrNotSupported}
    /\ ret.op = "Write" => ret.err # ErrNotSupported

\* C10 witness: Wrap has returned a writer together with ErrNotSupported.
C10_Witness ==
    /\ ret.op = "Wrap"
    /\ ret.err = ErrNotSupported
    /\ pc = "open"
    /\ file.w = 1

\* C11: with Count <= 1 every Rotate call returns the handle it was given
\* and changes nothing in the file system: no file is removed, renamed or
\* opened.
C11_CountOneIsNoop ==
    [][(WriteStep /\ cfg.Count <= 1 /\ MustRotate(file))
           => /\ ret'.h = file.w
              /\ file'.w = file.w
              /\ disk' = disk
              /\ handles' = handles
      ]_vars

\* C11 as amended: with Count <= 1 and Dirname supported the engine is a
\* rotator that keeps no backlog: a Rotate call renames nothing and
\* touches no name but the base; the base name afterwards is the file it
\* was or a new file; a successful call closes the old handle and returns
\* a new one opened on the base name, a failed call returns the old handle
\* and opens nothing.
C11_CountOneKeepsNoBacklog ==
    [][(/\ WriteStep
        /\ cfg.Count <= 1
        /\ rot.kind = "rotator"
        /\ MustRotate(file))
           => /\ pc' = "open"
              /\ DOMAIN disk' \ {Base} = DOMAIN disk \ {Base}
              /\ \A s \in DOMAIN disk \ {Base} : disk'[s] = disk[s]
              /\ Base \in DOMAIN disk' =>
                    \/ disk'[Base] > Len(content)
                    \/ Base \in DOMAIN disk /\ disk'[Base] = disk[Base]
              /\ ret'.rerr = Nil =>
                    /\ Base \in DOMAIN disk'
                    /\ ret'.h = Len(handles) + 1
                    /\ file'.w = ret'.h
                    /\ handles'[ret'.h] = [ino |-> disk'[Base], closes |-> 0]
                    /\ handles'[file.w].closes = handles[file.w].closes + 1
              /\ ret'.rerr # Nil =>
                    /\ ret'.h = file.w
                    /\ file'.w = file.w
                    /\ handles' = handles
      ]_vars

\* C11 witness: with Count <= 1 a second rotation has succeeded.
C11_Witness ==
    /\ cfg.Count <= 1
    /\ rot.kind = "rotator"
    /\ ret.op = "Write"
    /\ ret.rotate
    /\ ret.rerr = Nil
    /\ hist.ok = 2

\* C12: with Count <= 1 and Bytes > 0 every successful rotation removes
\* the base file and leaves a new file under the base name, which was
\* empty before the write, and the set of backlog files does not change.
C12_CountOneRecreates ==
    [][(/\ WriteStep
        /\ cfg.Count <= 1
        /\ cfg.Bytes > 0
        /\ rot.kind = "rotator"
        /\ MustRotate(file)
        /\ ret'.rerr = Nil)
           => /\ Base \in DOMAIN disk'
              /\ disk'[Base] > Len(content)
              /\ content'[disk'[Base]] = Bytes(nw + 1, ret'.n)
              /\ Backlog(disk') = Backlog(disk)
      ]_vars

C14_ZeroBytesNeverRotates ==
    [][(WriteStep /\ cfg.Bytes = 0)
           => /\ ~ret'.rotate
              /\ ret'.rerr = Nil
              /\ file'.w = file.w
              /\ rot' = rot
              /\ disk' = disk
              /\ handles' = handles
              /\ hist' = hist
      ]_vars

\* C14 witness: with Bytes = 0 a Write that went through a rotator engine
\* did not rotate a file that holds two bytes or more.
C14_Witness ==
    /\ cfg.Bytes = 0
    /\ rot.kind = "rotator"
    /\ ret.op = "Write"
    /\ ~ret.rotate
    /\ nw >= 2
    /\ Len(content[1]) >= 2

\* C15: with Bytes > 0, as long as no Write has called Rotate, a Write calls
\* Rotate exactly when the size of the file at construction plus the bytes
\* written since have reached Bytes; so the first Write on a file of Bytes
\* bytes or more rotates.
C15_CounterSeededFromSize ==
    [][(/\ WriteStep
        /\ file.bytes > 0
        /\ hist.ok + hist.bad = 0
        /\ ret.op = "Write" => ~ret.rotate)
           => /\ file.w = 1
              /\ handles[1].ino = 1
              /\ ret'.rotate <=> Len(content[1]) >= file.bytes
      ]_vars

\* C15 witness: the first Write on a wrapped file rotated.
C15_Witness ==
    /\ nw = 1
    /\ ret.op = "Write"
    /\ ret.rotate
    /\ rot.kind = "rotator"
    /\ file.bytes > 0
    /\ hist.ok = 1

\* C20: every error that Rotate returns is an Error value that carries the
\* name of a file of the chain and the cause.
C20_RotationErrorsAreErrors ==
    [][(WriteStep /\ ret'.rerr # Nil)
           => /\ ret'.rerr.type = "Error"
              /\ ret'.rerr.Filename # Empty
              /\ ret'.rerr.Err # "nil"
      ]_vars

\* C16: for a base that does not end in a rotation suffix and an index
\* n >= 0, Split(base.n) is (base, n), and the name shift makes of slot n
\* is split into (base, n + 1).
C16_CodecRoundTrip ==
    /\ ret.op = "shift" => ret.out = [base |-> ret.base, n |-> ret.n + 1]
    /\ ret.op = "Split" => ret.out = [base |-> ret.base, n |-> ret.n]

\* the files of the directory root itself named base or base.<positive
\* decimal integer>
Matching(root, base) ==
    {k.name : k \in {x \in root.kids :
        /\ ~x.dir
        /\ \/ x.name = base
           \/ /\ Len(x.name) > Len(base) + 1
              /\ SubSeq(x.name, 1, Len(base) + 1) = base \o <<".">>
              /\ \A j \in (Len(base) + 2)..Len(x.name) : IsDigit(x.name[j])
              /\ ParseInt(SubSeq(x.name, Len(base) + 2, Len(x.name))) > 0}}

\* C17: List returns the names of the files of the directory that are the
\* base or base.<positive decimal integer>, each once and no other name, in
\* lexicographic order.
C17_ListResult ==
    ret.op = "List" =>
        /\ {ret.out[i] : i \in 1..Len(ret.out)} = Matching(ret.root, ret.base)
        /\ Len(ret.out) = Cardinality(Matching(ret.root, ret.base))
        /\ \A i \in 1..(Len(ret.out) - 1) : Less(ret.out[i], ret.out[i + 1])
        /\ ret.base \in Matching(ret.root, ret.base) => ret.out[1] = ret.base

\* C18: every name List returns is the name of a regular file that lies
\* immediately in the scanned directory.
C18_ListFilesOnly ==
    ret.op = "List" =>
        \A i \in 1..Len(ret.out) :
            \E k \in ret.root.kids : ~k.dir /\ k.name = ret.out[i]

\* goroutine g is between f.mu.Lock and f.mu.Unlock
Inside(t, g) == t[g].pc \in {"rotate", "reopen", "write", "sync", "unlock"}

\* C19: with Lock = true no two goroutines are inside Write or Sync at the
\* same time, and when a goroutine issues the write or the sync on f.w no
\* other goroutine is in a rotation or anywhere else inside a call.
C19_LockExcludes ==
    [][cfg.Lock
           => /\ \A g, h \in Procs :
                    (Inside(thr', g) /\ Inside(thr', h)) => g = h
              /\ \A g \in Procs :
                    (thr[g].pc \in {"write", "sync"} /\ thr'[g].pc = "unlock")
                        => \A h \in Procs \ {g} : ~Inside(thr, h)
      ]_vars

\* C19 witness: a goroutine is in the middle of a rotation (the files are
\* renamed, the base is not reopened yet) while another goroutine has
\* called Write and waits for the lock.
C19_Witness ==
    /\ cfg.Lock
    /\ \E g, h \in Procs :
          /\ g # h
          /\ thr[g].pc = "reopen"
          /\ thr[h].pc = "lock"
          /\ thr[h].op = "Write"
          /\ mu.owner = g

\* C21: when Rotate returned an error during a Write, the error that Write
\* returns is that rotation error, also when the write on the handle
\* failed too.
C21_RotationErrorReported ==
    [][(WriteStep /\ pc' = "open" /\ ret'.rerr # Nil)
           => ret'.err = ret'.rerr
      ]_vars

\* C22: when the removal of the file of the last chain position fails,
\* Rotate renames nothing and opens nothing, leaves the chain as it was,
\* returns the handle it had, which stays open, and reports an Error that
\* names the file of the last position.
C22_EvictFailureAborts ==
    [][(/\ WriteStep
        /\ rot.kind = "rotator"
        /\ MustRotate(file)
        /\ \/ ret'.at.kind = "remove"
           \/ /\ rot.names[Len(rot.names)] # Empty
              /\ rot.names[Len(rot.names)] \notin DOMAIN disk)
           => /\ pc' = "open"
              /\ ret'.at.kind = "remove"
              /\ disk' = disk
              /\ rot' = rot
              /\ handles' = handles
              /\ ret'.h = file.w
              /\ file'.w = file.w
              /\ ret'.rerr.type = "Error"
              /\ ret'.rerr.Filename = rot.names[Len(rot.names)]
              /\ ret'.rerr.Filename # Empty
              /\ ret'.rerr.Err # "nil"
      ]_vars

\* C22 witness: the removal of the last file of a full chain of three
\* names or more has failed during a Write.
C22_Witness ==
    /\ ret.op = "Write"
    /\ ret.at.kind = "remove"
    /\ Len(rot.names) >= 3
    /\ rot.names[Len(rot.names)] # Empty
    /\ handles[file.w].closes = 0

\* C23: when the rename of chain position i fails and the call returns,
\* positions up to i keep their names, and every file renamed before (old
\* position k > i) is recorded at position k + 1 under its new name.
C23_PartialFailureRecorded ==
    [][(WriteStep /\ ret'.at.kind = "rename" /\ pc' = "open")
           => LET i   == ret'.at.pos
                  len == Len(rot.names)
              IN  /\ \A k \in 1..i : rot'.names[k] = rot.names[k]
                  /\ \A k \in (i + 1)..(len - 1) :
                        rot.names[k] # Empty =>
                            rot'.names[k + 1] = Incremented(Split(rot.names[k]))
      ]_vars

\* C24: after a Rotate call, however it ended, every name of the chain is
\* the name of a file of the directory, as long as no other process has
\* changed the directory.
C24_ChainDiskAgreement ==
    (/\ pc = "open"
     /\ rot.kind = "rotator"
     /\ ret.op = "Write"
     /\ ret.rotate
     /\ ~hist.ext)
        => \A k \in 1..Len(rot.names) :
              rot.names[k] # Empty => rot.names[k] \in DOMAIN disk

\* C25: a rotation takes no file out of the directory but the one of the
\* last chain position: no rename replaces a file that exists.
C25_NoRenameOverwrites ==
    [][(WriteStep /\ rot.kind = "rotator" /\ MustRotate(file))
           => \A s \in DOMAIN disk :
                 s # rot.names[Len(rot.names)] =>
                     \E u \in DOMAIN disk' : disk'[u] = disk[s]
      ]_vars

\* C26: when the open of the new base file fails after a complete rename
\* pass, Rotate returns the handle it had, not closed, and the error; the
\* write of the call goes to that handle; and the chain is sound: each of
\* its names is the name of a file of the directory.
C26_ReopenFailure ==
    [][(WriteStep /\ ret'.at.kind = "reopen")
           => /\ pc' = "open"
              /\ ret'.rerr # Nil
              /\ ret'.h = file.w
              /\ file'.w = file.w
              /\ rot'.f = rot.f
              /\ handles' = handles
              /\ handles'[file.w].closes = 0
              /\ content'[handles[file.w].ino]
                     = content[handles[file.w].ino] \o Bytes(nw + 1, ret'.n)
              /\ ret'.werr = Nil => ret'.n = ret'.len /\ ret'.err = ret'.rerr
              /\ \A k \in 1..Len(rot'.names) :
                    rot'.names[k] # Empty => rot'.names[k] \in DOMAIN disk'
      ]_vars

\* C27: with Count = C >= 2 the chain that construction builds holds the
\* base name at position 0 and, at position k (1 <= k < C), base.k when
\* that file exists and the empty name otherwise.
C27_ChainPlacedByIndex ==
    (ret.op = "Wrap" /\ rot.kind = "rotator" /\ cfg.Count >= 2 /\ ~hist.ext)
        => /\ Len(rot.names) = cfg.Count
           /\ rot.names[1] = Base
           /\ \A k \in 1..(cfg.Count - 1) :
                 rot.names[k + 1] = IF Render(Base, k) \in DOMAIN disk
                                    THEN Render(Base, k)
                                    ELSE Empty

\* C27 (amended): with Count = C >= 2 the chain that construction builds has
\* C positions; position 0 holds the base name, the occupied positions are a
\* prefix that names files of the directory in increasing index order, and
\* a file of the backlog is left out only when the chain is full of names
\* with lower indices.
C27_ChainFilledInOrder ==
    (ret.op = "Wrap" /\ rot.kind = "rotator" /\ cfg.Count >= 2 /\ ~hist.ext)
        => /\ Len(rot.names) = cfg.Count
           /\ rot.names[1] = Base
           /\ Contiguous(rot.names)
           /\ \A k \in 1..Len(rot.names) :
                 rot.names[k] # Empty =>
                    /\ rot.names[k] \in DOMAIN disk
                    /\ \A j \in 1..(k - 1) :
                          Gen(rot.names[j]) < Gen(rot.names[k])
           /\ \A s \in Backlog(disk) :
                 \/ \E k \in 1..Len(rot.names) : rot.names[k] = s
                 \/ \A k \in 1..Len(rot.names) :
                       rot.names[k] # Empty /\ Gen(rot.names[k]) < Gen(s)

\* construction on a directory with a gap in the indices
C27_Witness ==
    /\ ret.op = "Wrap"
    /\ rot.kind = "rotator"
    /\ cfg.Count >= 3
    /\ ~hist.ext
    /\ Render(Base, 1) \notin DOMAIN disk
    /\ Render(Base, 2) \in DOMAIN disk
    /\ rot.names[2] = Render(Base, 2)

\* C28: the chain of a rotator keeps the length construction gave it (Count,
\* or 1 when Count < 1) and its position 0 holds the base name.
C28_BaseAtPositionZero ==
    rot.kind = "rotator"
        => /\ Len(rot.names) = (IF cfg.Count < 1 THEN 1 ELSE cfg.Count)
           /\ rot.names[1] = Base

\* C29: in every state of a rotator the occupied chain positions are a
\* prefix of the chain: no position is empty below an occupied one.
C29_ContiguousPrefix ==
    rot.kind = "rotator" => Contiguous(rot.names)

\* C29 witness: a rotation has succeeded after one that failed on a
\* rename, in a chain of three positions or more.
C29_Witness ==
    /\ rot.kind = "rotator"
    /\ Len(rot.names) >= 3
    /\ ret.op = "Write"
    /\ ret.rotate
    /\ hist.bad >= 1
    /\ hist.ok >= 1
    /\ rot.names[2] # Empty

\* C30: a Write calls Rotate at most once, and the Write that follows a
\* rotation that failed calls Rotate again: the failure leaves the byte
\* counter where it was, no lower than the limit.
C30_RetryOnNextWrite ==
    [][(WriteStep /\ rot.kind = "rotator")
          => /\ hist'.ok + hist'.bad <= hist.ok + hist.bad + 1
             /\ (ret.op = "Write" /\ ret.rotate /\ ret.rerr # Nil)
                   => /\ MustRotate(file)
                      /\ hist'.ok + hist'.bad = hist.ok + hist.bad + 1
             /\ (pc' = "open" /\ ret'.rotate /\ ret'.rerr # Nil)
                   => /\ file'.n = file.n + ret'.n
                      /\ MustRotate(file')
      ]_vars

\* the first Write failed to rotate and the second rotated
C30_Witness ==
    /\ rot.kind = "rotator"
    /\ nw = 2
    /\ ret.op = "Write"
    /\ ret.rotate
    /\ ret.rerr = Nil
    /\ hist.bad = 1
    /\ hist.ok = 1

\* the handles of hs that are not closed
OpenHandles(hs) == {h \in 1..Len(hs) : hs[h].closes = 0}

\* C31: while the writer is open exactly one handle is open, the one the
\* writer writes to, which is the one its rotator holds; a rotation that
\* succeeds closes the old handle once and makes a new handle of the base
\* file the current one; Close closes the current handle.
C31_HandleOwnership ==
    [][/\ pc' = "open"
            => /\ OpenHandles(handles') = {file'.w}
               /\ rot'.f = file'.w
               /\ \A h \in 1..Len(handles') : handles'[h].closes <= 1
       /\ (WriteStep /\ rot.kind = "rotator" /\ hist'.ok = hist.ok + 1)
            => /\ handles'[file.w].closes = handles[file.w].closes + 1
               /\ file'.w = Len(handles) + 1
               /\ Len(handles') = Len(handles) + 1
               /\ Base \in DOMAIN disk'
               /\ handles'[file'.w].ino = disk'[Base]
       /\ (pc = "open" /\ pc' = "closed")
            => /\ handles'[file.w].closes = handles[file.w].closes + 1
               /\ file'.w = file.w
               /\ OpenHandles(handles') = {}
      ]_vars

\* the writer was closed after a rotation that succeeded
C31_Witness ==
    /\ pc = "closed"
    /\ ret.op = "Close"
    /\ rot.kind = "rotator"
    /\ hist.ok >= 1
    /\ Len(handles) >= 2
    /\ handles[file.w].closes = 1

\* C32: with Lock = true, once Close has returned and no goroutine is in a
\* Write any more, no handle of the writer is open and no handle was
\* closed twice.
C32_CloseSerialized ==
    (cfg.Lock /\ pc = "open" /\ Closed(thr)
       /\ \A g \in Procs : thr[g].pc \in {"idle", "closed"})
        => /\ OpenHandles(handles) = {}
           /\ \A h \in 1..Len(handles) : handles[h].closes <= 1

====
